---------------------------- MODULE Spec2Model ----------------------------
(***************************************************************************)
(* The safety-scoring pipeline of the healthcare RAG system:               *)
(* comprehensive_safety_check (src/src/safety/safety_checker.py) and the   *)
(* scorers it calls, run by request handlers that share one language-model *)
(* handle (app.state.llm).                                                 *)
(*                                                                         *)
(* Numbers.  A similarity is an integer number of hundredths.  A score (a  *)
(* mean of similarities) is an integer number of 1/Unit, Unit = 100 * K,   *)
(* where K is a common multiple of every possible divisor of a mean, so    *)
(* that every mean is exact.  A combined fact-check score is a number of   *)
(* 1/(10 * Unit), so that 0.7*i + 0.3*e is the exact integer 7*i + 3*e.    *)
(* Floating-point rounding is not modelled.                                *)
(***************************************************************************)
EXTENDS Integers, Sequences, FiniteSets, TLC

(***************************************************************************)
(* Bounds of the model.                                                    *)
(***************************************************************************)
MaxTries == 2        \* num_tries ranges over 0..MaxTries
MaxSubQ == 2         \* sub-questions parsed by break_down_query: 0..MaxSubQ
MaxSent == 1         \* sentences of an answer: 0..MaxSent
MaxAll == 4          \* sentences of all sampled responses together: 0..MaxAll
MaxChars == 3        \* characters of an answer text: 0..MaxChars
MaxChunks == 2       \* source chunks given to a scorer called on its own: 0..MaxChunks
MaxResp == 3         \* responses given to check_consistency called on its own: 0..MaxResp
MaxArticles == 4     \* articles in one answer of the literature search: 0..MaxArticles

(***************************************************************************)
(* Program constants.                                                      *)
(***************************************************************************)
DEFAULT_TEMPERATURE == 1     \* 0.1, in tenths
HIGH_TEMPERATURE == 8        \* 0.8, in tenths
num_samples == 3             \* entropy samples asked by the aggregator

Procs == {1, 2}              \* request handlers sharing the llm handle
ErrMsgs == {"", "err"}       \* str(e) of a caught exception: may be empty
SimVals == {40, 60, 100}     \* best-match similarities the encoder may give
EntropyVals == {0, 100, 200} \* entropies the clustering may give, in hundredths

Max(a, b) == IF a >= b THEN a ELSE b

RECURSIVE Gcd(_, _)
Gcd(a, b) == IF b = 0 THEN a ELSE Gcd(b, a % b)

RECURSIVE LcmUpTo(_)
LcmUpTo(n) == IF n <= 1 THEN 1 ELSE (LcmUpTo(n - 1) * n) \div Gcd(LcmUpTo(n - 1), n)

\* unordered pairs of n responses
NumPairs(n) == (n * (n - 1)) \div 2

\* the most sentences a text of MaxChars characters can hold
MaxTextSent == (MaxChars + 1) \div 2

K == LcmUpTo(Max(Max(MaxSent, MaxTextSent), Max(NumPairs(MaxTries), NumPairs(MaxResp))))
Unit == 100 * K

RECURSIVE SumSeq(_)
SumSeq(s) == IF s = <<>> THEN 0 ELSE Head(s) + SumSeq(Tail(s))

\* np.mean of a non-empty sequence of similarities, as a score
Mean(s) == (SumSeq(s) * K) \div Len(s)

\* sequences over S of length exactly n
SeqsOfLen(S, n) == [1..n -> S]


MaxOf(s) == CHOOSE x \in {s[i] : i \in 1..Len(s)} : \A j \in 1..Len(s) : s[j] <= x

\* cosine-similarity matrices: one row per answer sentence, one column per source
Matrices(rows, cols, Sims) == [1..rows -> [1..cols -> Sims]]

(***************************************************************************)
(* Python values.  NONE is None / a missing dict key; a string is truthy   *)
(* unless it is empty.                                                     *)
(***************************************************************************)
NONE == "<None>"
Truthy(x) == x \notin {NONE, ""}

(***************************************************************************)
(* attribution.py                                                          *)
(*   sentences     the number of non-blank sentences of the answer         *)
(*   source_chunks the source texts                                        *)
(*   sims          the encoder's cosine matrix for them                    *)
(***************************************************************************)
\* s.strip(): the blanks at both ends removed
RECURSIVE Strip(_)
Strip(s) ==
    IF s = <<>> THEN <<>>
    ELSE IF Head(s) = " " THEN Strip(Tail(s))
    ELSE IF s[Len(s)] = " " THEN Strip(SubSeq(s, 1, Len(s) - 1))
    ELSE s

\* re.split(r'[.!?]', answer): the pieces between the separators, from
\* position i on, current being the piece read so far
RECURSIVE ReSplit(_, _, _)
ReSplit(answer, i, current) ==
    IF i > Len(answer) THEN <<current>>
    ELSE IF answer[i] \in {".", "!", "?"}
    THEN <<current>> \o ReSplit(answer, i + 1, <<>>)
    ELSE ReSplit(answer, i + 1, Append(current, answer[i]))

\* the filter testing s instead of s.strip()
RECURSIVE NonEmpty(_)
NonEmpty(pieces) ==
    IF pieces = <<>> THEN <<>>
    ELSE IF Head(pieces) # <<>>
    THEN <<Strip(Head(pieces))>> \o NonEmpty(Tail(pieces))
    ELSE NonEmpty(Tail(pieces))

\* [s.strip() for s in sentences if s.strip()]
RECURSIVE NonBlank(_)
NonBlank(pieces) ==
    IF pieces = <<>> THEN <<>>
    ELSE IF Strip(Head(pieces)) # <<>>
    THEN <<Strip(Head(pieces))>> \o NonBlank(Tail(pieces))
    ELSE NonBlank(Tail(pieces))

\* the sentences of an answer (25-27, 64-65)
SplitSentences(answer) == NonBlank(ReSplit(answer, 1, <<>>))

check_answer_support(sentences, source_chunks, sims) ==
    IF sentences = 0 \/ source_chunks = <<>>
    THEN [overall |-> 0, sentence_scores |-> <<>>]
    ELSE LET sentence_scores == [i \in 1..sentences |-> MaxOf(sims[i])]
         IN  [overall |-> Mean(sentence_scores), sentence_scores |-> sentence_scores]

\* the comparison with the threshold turned round
RECURSIVE WeakFromAbove(_, _, _, _)
WeakFromAbove(i, sentences, sims, threshold) ==
    IF i > sentences THEN <<>>
    ELSE LET best_score == MaxOf(sims[i])
             rest == WeakFromAbove(i + 1, sentences, sims, threshold)
         IN  IF best_score > threshold
             THEN <<[score |-> best_score, index |-> i - 1]>> \o rest
             ELSE rest

\* the comparison with the threshold taken as inclusive
RECURSIVE WeakFromInclusive(_, _, _, _)
WeakFromInclusive(i, sentences, sims, threshold) ==
    IF i > sentences THEN <<>>
    ELSE LET best_score == MaxOf(sims[i])
             rest == WeakFromInclusive(i + 1, sentences, sims, threshold)
         IN  IF best_score <= threshold
             THEN <<[score |-> best_score, index |-> i - 1]>> \o rest
             ELSE rest

\* the loop of find_weak_sentences (74-84) from sentence i on; an entry stands
\* for {'sentence': sentences[i], 'score': best_score, 'index': i}
RECURSIVE WeakFrom(_, _, _, _)
WeakFrom(i, sentences, sims, threshold) ==
    IF i > sentences THEN <<>>
    ELSE LET best_score == MaxOf(sims[i])
             rest == WeakFrom(i + 1, sentences, sims, threshold)
         IN  IF best_score < threshold
             THEN <<[score |-> best_score, index |-> i - 1]>> \o rest
             ELSE rest

find_weak_sentences(sentences, source_chunks, sims, threshold) ==
    IF sentences = 0 \/ source_chunks = <<>>
    THEN <<>>
    ELSE WeakFrom(1, sentences, sims, threshold)

\* both functions call encoder.encode only past their early return
UsesEncoder(sentences, source_chunks) == sentences > 0 /\ source_chunks # <<>>

DefaultWeakThreshold == 50       \* 0.5, in hundredths

(***************************************************************************)
(* entropy.py: the classification of an entropy value (hundredths).        *)
(***************************************************************************)
\* the two boundaries taken as exclusive
EntropyConfidenceExclusive(semantic_entropy) ==
    IF semantic_entropy > 200 THEN "LOW"
    ELSE IF semantic_entropy > 100 THEN "MEDIUM"
    ELSE "HIGH"

EntropyConfidence(semantic_entropy) ==
    IF semantic_entropy >= 200 THEN "LOW"
    ELSE IF semantic_entropy >= 100 THEN "MEDIUM"
    ELSE "HIGH"

(***************************************************************************)
(* entropy.py: calculate_sentence_semantic_entropy.                        *)
(*   responses      the sampled responses, each the sequence of the texts  *)
(*                  of its sentences that pass the filter of line 88       *)
(*   sim            the cosine the encoder gives for two different texts,  *)
(*                  in hundredths; a text against itself gives 100         *)
(* Sentences are numbered from 1 (the code numbers them from 0).  An       *)
(* entropy is a number of hundredths: exact when it is a whole number of   *)
(* bits, rounded through Log2Centi otherwise.                              *)
(***************************************************************************)
RECURSIVE Flatten(_)
Flatten(responses) ==
    IF responses = <<>> THEN <<>> ELSE Head(responses) \o Flatten(Tail(responses))

SimOf(sim, a, b) ==
    IF a = b THEN 100 ELSE IF a < b THEN sim[<<a, b>>] ELSE sim[<<b, a>>]

\* the threshold taken as inclusive
SimilarInclusive(similarity) == similarity >= 70

\* similarity > similarity_threshold   (100, 114)
Similar(similarity) == similarity > 70

\* the inner loop without its test of used_indices
SkippedIgnoringUsed(i, j, used_indices) == j <= i

\* j <= i or j in used_indices   (110)
Skipped(i, j, used_indices) == j <= i \/ j \in used_indices

\* an inner loop that compares a sentence with the last member of the cluster
\* instead of its seed
RECURSIVE InnerLoopChained(_, _, _, _, _, _)
InnerLoopChained(i, j, cluster, used_indices, all_sentences, sim) ==
    IF j > Len(all_sentences) THEN [cluster |-> cluster, used_indices |-> used_indices]
    ELSE IF Skipped(i, j, used_indices)
    THEN InnerLoopChained(i, j + 1, cluster, used_indices, all_sentences, sim)
    ELSE IF Similar(SimOf(sim, all_sentences[cluster[Len(cluster)]], all_sentences[j]))
    THEN InnerLoopChained(i, j + 1, Append(cluster, j), used_indices \cup {j},
                          all_sentences, sim)
    ELSE InnerLoopChained(i, j + 1, cluster, used_indices, all_sentences, sim)

\* the inner loop (109-116) from position j on
RECURSIVE InnerLoop(_, _, _, _, _, _)
InnerLoop(i, j, cluster, used_indices, all_sentences, sim) ==
    IF j > Len(all_sentences) THEN [cluster |-> cluster, used_indices |-> used_indices]
    ELSE IF Skipped(i, j, used_indices)
    THEN InnerLoop(i, j + 1, cluster, used_indices, all_sentences, sim)
    ELSE IF Similar(SimOf(sim, all_sentences[i], all_sentences[j]))
    THEN InnerLoop(i, j + 1, Append(cluster, j), used_indices \cup {j}, all_sentences, sim)
    ELSE InnerLoop(i, j + 1, cluster, used_indices, all_sentences, sim)

\* the outer loop (102-118) from position i on
RECURSIVE OuterLoop(_, _, _, _, _)
OuterLoop(i, clusters, used_indices, all_sentences, sim) ==
    IF i > Len(all_sentences) THEN clusters
    ELSE IF i \in used_indices
    THEN OuterLoop(i + 1, clusters, used_indices, all_sentences, sim)
    ELSE LET r == InnerLoop(i, 1, <<i>>, used_indices \cup {i}, all_sentences, sim)
         IN  OuterLoop(i + 1, Append(clusters, r.cluster), r.used_indices,
                       all_sentences, sim)

\* 100 * log2(n), rounded
Log2Centi(n) ==
    CASE n = 1 -> 0
      [] n = 2 -> 100
      [] n = 3 -> 158
      [] n = 4 -> 200
      [] n = 5 -> 232
      [] n = 6 -> 258
      [] n = 7 -> 281
      [] n = 8 -> 300

RECURSIVE SizeLogSum(_)
SizeLogSum(cluster_sizes) ==
    IF cluster_sizes = <<>> THEN 0
    ELSE Head(cluster_sizes) * Log2Centi(Head(cluster_sizes)) + SizeLogSum(Tail(cluster_sizes))

\* the Shannon entropy of lines 121-131: - sum (size/total) * log2(size/total)
\*   = log2(total) - (sum size * log2(size)) / total
ShannonEntropy(cluster_sizes, total_sentences) ==
    (total_sentences * Log2Centi(total_sentences) - SizeLogSum(cluster_sizes))
        \div total_sentences

calculate_sentence_semantic_entropy(responses, sim) ==
    LET all_sentences == Flatten(responses)
    IN  IF Len(all_sentences) < 2
        THEN [entropy |-> 0, clustered |-> FALSE, clusters |-> <<>>,
              all_sentences |-> all_sentences]
        ELSE LET clusters == OuterLoop(1, <<>>, {}, all_sentences, sim)
                 cluster_sizes == [k \in 1..Len(clusters) |-> Len(clusters[k])]
             IN  [entropy |-> ShannonEntropy(cluster_sizes, Len(all_sentences)),
                  clustered |-> TRUE, clusters |-> clusters,
                  all_sentences |-> all_sentences]

(***************************************************************************)
(* fact_checker.py.  w is what the external collaborators do in this call: *)
(*   kw_raise      generate_scholar_keywords raises (message w.msg)        *)
(*   abstracts     the number of abstracts search_semantic_scholar returns *)
(*   ext_sentences the number of sentences prepare_abstract_sentences keeps*)
(*   enc_raise     check_answer_support raises (message w.msg)             *)
(*   ext_sims      the cosine matrix of the answer against the sentences   *)
(***************************************************************************)
\* external_sources.py, search_semantic_scholar.  outcome is what the request
\* does: kind "ok" with the articles of the JSON answer (each with its abstract,
\* NONE or "" when it has none), or a failure of the request (network), of
\* raise_for_status (rate-limit) or of the decoding of the answer (parse).
\* Everything the function gives back is the list it returns.
RECURSIVE AbstractsOf(_)
AbstractsOf(articles) ==
    IF articles = <<>> THEN <<>>
    ELSE IF Truthy(Head(articles)) THEN <<Head(articles)>> \o AbstractsOf(Tail(articles))
    ELSE AbstractsOf(Tail(articles))

search_semantic_scholar(outcome) ==
    IF outcome.kind = "ok"
    THEN [raised |-> FALSE, abstracts |-> AbstractsOf(outcome.articles)]
    ELSE [raised |-> FALSE, abstracts |-> <<>>]

\* a search without results reported as a plain zero score, with no error tag
external_fact_check_silent_zero(sentences, w) ==
    IF w.kw_raise
    THEN [external_support_score |-> 0, num_external_sources |-> 0, error |-> w.msg]
    ELSE IF w.abstracts = 0 \/ w.ext_sentences = 0
    THEN [external_support_score |-> 0, num_external_sources |-> w.abstracts,
          error |-> NONE]
    ELSE IF w.enc_raise /\ sentences > 0
    THEN [external_support_score |-> 0, num_external_sources |-> 0, error |-> w.msg]
    ELSE [external_support_score |->
              check_answer_support(sentences, [i \in 1..w.ext_sentences |-> 0],
                                   w.ext_sims).overall,
          num_external_sources |-> w.abstracts, error |-> NONE]

external_fact_check(sentences, w) ==
    IF w.kw_raise
    THEN [external_support_score |-> 0, num_external_sources |-> 0, error |-> w.msg]
    ELSE IF w.abstracts = 0
    THEN [external_support_score |-> 0, num_external_sources |-> 0,
          error |-> "No external sources found"]
    ELSE IF w.ext_sentences = 0
    THEN [external_support_score |-> 0, num_external_sources |-> w.abstracts,
          error |-> "No sentences extracted from abstracts"]
    ELSE IF w.enc_raise /\ sentences > 0
    THEN [external_support_score |-> 0, num_external_sources |-> 0, error |-> w.msg]
    ELSE [external_support_score |->
              check_answer_support(sentences, [i \in 1..w.ext_sentences |-> 0],
                                   w.ext_sims).overall,
          num_external_sources |-> w.abstracts, error |-> NONE]

ExternalFailed(result) == Truthy(result.error)

\* the "confidence" entry of interpret_external_score(score), score in 1/Unit
interpret_external_score(score) ==
    IF score >= 70 * K THEN "HIGH"
    ELSE IF score >= 50 * K THEN "MEDIUM"
    ELSE IF score >= 30 * K THEN "LOW"
    ELSE "VERY LOW"

\* _get_fact_check_recommendation(score, reliability), score in 1/(10 * Unit)
get_fact_check_recommendation(score, reliability) ==
    IF reliability = "internal_only"
    THEN IF score >= 700 * K
         THEN "Well-supported by internal sources, but external validation unavailable"
         ELSE IF score >= 500 * K
         THEN "Moderately supported by internal sources, consider seeking additional validation"
         ELSE "Poorly supported by internal sources, high risk of inaccuracy"
    ELSE IF score >= 700 * K
         THEN "Well-validated by both internal and external sources"
         ELSE IF score >= 500 * K
         THEN "Moderately validated, exercise caution in clinical application"
         ELSE "Poorly validated, do not use without consulting healthcare professional"

comprehensive_fact_check(sentences, internal_sources, sims, w) ==
    LET internal_score == check_answer_support(sentences, internal_sources, sims).overall
        external_result == external_fact_check(sentences, w)
        external_score == external_result.external_support_score
        combined_score == IF ExternalFailed(external_result)
                          THEN 10 * internal_score
                          ELSE 7 * internal_score + 3 * external_score
        reliability == IF ExternalFailed(external_result)
                       THEN "internal_only" ELSE "internal_and_external"
    IN  [is_dict |-> TRUE, error |-> NONE,
         internal_score |-> internal_score,
         external_score |-> external_score,
         external_interpretation |-> IF ExternalFailed(external_result) THEN NONE
                                     ELSE interpret_external_score(external_score),
         external_details |-> external_result,
         combined_score |-> combined_score,
         reliability |-> reliability,
         recommendation |-> get_fact_check_recommendation(combined_score, reliability)]

\* the dict built by the aggregator's except clause: {"error": str(e)}
ErrorDict(msg) ==
    [is_dict |-> TRUE, error |-> msg, internal_score |-> 0, external_score |-> 0,
     external_interpretation |-> NONE,
     external_details |-> [external_support_score |-> 0, num_external_sources |-> 0,
                           error |-> NONE],
     combined_score |-> 0, reliability |-> NONE, recommendation |-> NONE]

\* fact_check_result = None
NoFactCheck ==
    [is_dict |-> FALSE, error |-> NONE, internal_score |-> 0, external_score |-> 0,
     external_interpretation |-> NONE,
     external_details |-> [external_support_score |-> 0, num_external_sources |-> 0,
                           error |-> NONE],
     combined_score |-> 0, reliability |-> "<no fact check>", recommendation |-> NONE]

(***************************************************************************)
(* app/utils.py: the record sent to the frontend.  external_validation is  *)
(* None (present FALSE) or a dict; its num_sources is read from a key the  *)
(* fact-check dict does not have at its top level, so it is the default 0. *)
(***************************************************************************)
NoValidation ==
    [present |-> FALSE, score |-> 0, num_sources |-> 0, interpretation |-> NONE,
     recommendation |-> NONE]

NoResponse ==
    [sent |-> FALSE, confidence |-> "none", safety_score |-> 0, max_safety_score |-> 0,
     fact_check_enabled |-> FALSE, external_validation |-> NoValidation]

format_safety_response(safety_result) ==
    LET fact_check_result == safety_result.fact_check_result
    IN  [sent |-> TRUE,
         confidence |-> safety_result.confidence,
         safety_score |-> safety_result.safety_score,
         max_safety_score |-> safety_result.max_score,
         fact_check_enabled |-> safety_result.enable_fact_check,
         external_validation |->
             IF fact_check_result.is_dict /\ ~Truthy(fact_check_result.error)
             THEN [present |-> TRUE,
                   score |-> fact_check_result.combined_score,
                   num_sources |-> 0,
                   interpretation |-> fact_check_result.external_interpretation,
                   recommendation |-> fact_check_result.recommendation]
             ELSE NoValidation]


(***************************************************************************)
(* State.                                                                  *)
(*   llm_temperature  the temperature field of the shared llm handle       *)
(*   st[p]            handler p's call of comprehensive_safety_check: its  *)
(*                    position (pc), arguments, locals and returned dict   *)
(*   call             one call of a scoring function on its own: its name, *)
(*                    its arguments and what it returned                   *)
(***************************************************************************)
VARIABLES llm_temperature, st, call

vars == <<llm_temperature, st, call>>

NoCall == [fn |-> "none"]

\* what happened in the external stage: which collaborator failed, what the
\* search and the sentence splitter returned ("stage not run" before it)
NoEvents ==
    [run |-> FALSE, internal_raise |-> FALSE, kw_raise |-> FALSE, abstracts |-> 0,
     ext_sentences |-> 0, enc_raise |-> FALSE]
EventsOf(w) ==
    [run |-> TRUE, internal_raise |-> FALSE, kw_raise |-> w.kw_raise,
     abstracts |-> w.abstracts, ext_sentences |-> w.ext_sentences,
     enc_raise |-> w.enc_raise]
InternalRaised == [NoEvents EXCEPT !.run = TRUE, !.internal_raise = TRUE]

NoAnswer == [by |-> "none", q |-> "none", sentences |-> 0]
NotRaised == [cause |-> "none", stage |-> "none"]

\* a handler that has not been called yet
Idle ==
    [pc |-> "idle", use_multi_stage |-> FALSE, enable_fact_check |-> FALSE, num_tries |-> 0,
     answer |-> NoAnswer, source_chunks |-> <<>>,
     sub_questions |-> 0, sub_i |-> 0,
     sims |-> <<>>, attribution_score |-> 0,
     nresp |-> 0, consistency_score |-> 0, weak_sentences |-> <<>>,
     ent_i |-> 0, original_temp |-> 0, entry_temp |-> 0,
     semantic_entropy |-> 0, entropy_confidence |-> "none",
     fact_check_result |-> NoFactCheck, external_events |-> NoEvents,
     safety_score |-> 0, max_score |-> 0, confidence |-> "none",
     raised |-> NotRaised, nqueries |-> 0, seen_temps |-> {}, queries |-> <<>>,
     response |-> NoResponse]

Requests(Tries) ==
    [use_multi_stage : BOOLEAN, enable_fact_check : BOOLEAN, num_tries : Tries]

\* what one query_engine.query may return: an answer and its source nodes
Responses(q, Sents, Srcs) ==
    {[answer |-> [by |-> "query", q |-> q, sentences |-> n], source_nodes |-> src] :
        n \in Sents, src \in Srcs}

\* the source nodes one query returns in the pipeline runs: none, or one chunk
\* (a node is identified with its text)
PipelineSources == {<<>>, <<1>>}

Set(p, r) == st' = [st EXCEPT ![p] = r] /\ UNCHANGED call

\* the stage of the aggregator a position belongs to
StageOf(pc) ==
    IF pc \in {"RETRIEVE", "SUBQ", "SYNTH"} THEN "RETRIEVE"
    ELSE IF pc \in {"ENT_READ", "ENT_SET", "ENT_QUERY", "ENT_RESTORE", "ENT_SCORE"}
    THEN "ENTROPY"
    ELSE pc

\* an exception leaves comprehensive_safety_check
Raise(p, cause) ==
    Set(p, [st[p] EXCEPT !.pc = "RAISED",
                         !.raised = [cause |-> cause, stage |-> StageOf(st[p].pc)]])

\* the bookkeeping of one query_engine.query call, a blocking call made in
\* stage `stage` with the question q: it runs at the temperature the shared
\* handle holds at that moment
Queried(r, stage, q) ==
    [r EXCEPT !.nqueries = @ + 1,
              !.seen_temps = @ \cup {[stage |-> stage, temperature |-> llm_temperature]},
              !.queries = Append(@, [stage |-> stage, q |-> q])]

Init ==
    /\ llm_temperature = DEFAULT_TEMPERATURE
    /\ st = [p \in Procs |-> Idle]
    /\ call = NoCall

(***************************************************************************)
(* handle_query calls comprehensive_safety_check.                          *)
(***************************************************************************)
Start(p, Reqs) ==
    /\ st[p].pc = "idle"
    /\ \E r \in Reqs :
          Set(p, [Idle EXCEPT !.pc = "RETRIEVE",
                              !.use_multi_stage = r.use_multi_stage,
                              !.enable_fact_check = r.enable_fact_check,
                              !.num_tries = r.num_tries])
    /\ UNCHANGED llm_temperature

(***************************************************************************)
(* Step 1, standard retrieval (safety_checker.py 42-46).                   *)
(***************************************************************************)
RetrieveDirect(p, Sents, Srcs) ==
    /\ st[p].pc = "RETRIEVE"
    /\ ~st[p].use_multi_stage
    /\ \/ Set(p, [Queried(st[p], "RETRIEVE", "original") EXCEPT
                     !.pc = "RAISED",
                     !.raised = [cause |-> "retrieval", stage |-> "RETRIEVE"]])
       \/ \E resp \in Responses("original", Sents, Srcs) :
             Set(p, [Queried(st[p], "RETRIEVE", "original") EXCEPT
                        !.pc = "ATTRIBUTION",
                        !.answer = resp.answer,
                        !.source_chunks = resp.source_nodes])
    /\ UNCHANGED llm_temperature

(***************************************************************************)
(* Step 1, multi-stage retrieval (multi_stage.py 52-129).                  *)
(***************************************************************************)
\* every source appended, whether its text is already there or not
RECURSIVE MergeSourcesAppendAll(_, _)
MergeSourcesAppendAll(all_sources, sources) ==
    IF sources = <<>> THEN all_sources
    ELSE MergeSourcesAppendAll(Append(all_sources, Head(sources)), Tail(sources))

\* sources appended to all_sources unless their text is already there (90-92)
RECURSIVE MergeSources(_, _)
MergeSources(all_sources, sources) ==
    IF sources = <<>> THEN all_sources
    ELSE LET source == Head(sources)
         IN  IF source \notin {all_sources[i] : i \in 1..Len(all_sources)}
             THEN MergeSources(Append(all_sources, source), Tail(sources))
             ELSE MergeSources(all_sources, Tail(sources))

\* the loop over the sub-questions (73-92) on the source lists their queries
\* returned, in order
RECURSIVE MergeAll(_, _)
MergeAll(all_sources, sub_sources) ==
    IF sub_sources = <<>> THEN all_sources
    ELSE MergeAll(MergeSources(all_sources, Head(sub_sources)), Tail(sub_sources))

\* break_down_query: one llm.complete call, then the parse of its lines
Decompose(p, Counts) ==
    /\ st[p].pc = "RETRIEVE"
    /\ st[p].use_multi_stage
    /\ \/ Raise(p, "llm")
       \/ \E k \in Counts :
             Set(p, [st[p] EXCEPT !.pc = IF k = 0 THEN "SYNTH" ELSE "SUBQ",
                                  !.sub_questions = k,
                                  !.sub_i = 0,
                                  !.source_chunks = <<>>])
    /\ UNCHANGED llm_temperature

\* one turn of the loop over sub_questions (75-92)
SubQuery(p, Sents, Srcs) ==
    /\ st[p].pc = "SUBQ"
    /\ st[p].sub_i < st[p].sub_questions
    /\ \/ Set(p, [Queried(st[p], "RETRIEVE", "sub") EXCEPT
                     !.pc = "RAISED",
                     !.raised = [cause |-> "retrieval", stage |-> "RETRIEVE"]])
       \/ \E resp \in Responses("sub", Sents, Srcs) :
             Set(p, [Queried(st[p], "RETRIEVE", "sub") EXCEPT
                        !.pc = IF st[p].sub_i + 1 = st[p].sub_questions
                               THEN "SYNTH" ELSE "SUBQ",
                        !.sub_i = @ + 1,
                        !.source_chunks = MergeSources(@, resp.source_nodes)])
    /\ UNCHANGED llm_temperature

\* the synthesis prompt (94-129): final_answer is what llm.complete returns
Synthesize(p, Sents) ==
    /\ st[p].pc = "SYNTH"
    /\ \/ Set(p, [st[p] EXCEPT !.pc = "RAISED",
                               !.raised = [cause |-> "llm", stage |-> "RETRIEVE"]])
       \/ \E n \in Sents :
             Set(p, [st[p] EXCEPT
                        !.pc = "ATTRIBUTION",
                        !.answer = [by |-> "synthesis", q |-> "original", sentences |-> n]])
    /\ UNCHANGED llm_temperature

(***************************************************************************)
(* Step 2, attribution (safety_checker.py 64).  The encoder is a           *)
(* deterministic function of the texts: the matrix it gives here is the    *)
(* one every later call on the same answer and sources sees.               *)
(***************************************************************************)
Attribution(p, Sims) ==
    /\ st[p].pc = "ATTRIBUTION"
    /\ IF UsesEncoder(st[p].answer.sentences, st[p].source_chunks)
       THEN \/ Raise(p, "encoder")
            \/ \E sims \in Matrices(st[p].answer.sentences, Len(st[p].source_chunks), Sims) :
                  Set(p, [st[p] EXCEPT
                             !.pc = "CONSISTENCY",
                             !.sims = sims,
                             !.attribution_score =
                                 check_answer_support(st[p].answer.sentences,
                                                      st[p].source_chunks, sims).overall])
       ELSE Set(p, [st[p] EXCEPT
                       !.pc = "CONSISTENCY",
                       !.attribution_score =
                           check_answer_support(st[p].answer.sentences,
                                                st[p].source_chunks, <<>>).overall])
    /\ UNCHANGED llm_temperature

(***************************************************************************)
(* Step 3, consistency (consistency.py 12-64).                             *)
(***************************************************************************)
\* one turn of the query loop (29-33)
ConsistencyQuery(p) ==
    /\ st[p].pc = "CONSISTENCY"
    /\ st[p].nresp < st[p].num_tries
    /\ \/ Set(p, [Queried(st[p], "CONSISTENCY", "original") EXCEPT
                     !.pc = "RAISED",
                     !.raised = [cause |-> "retrieval", stage |-> "CONSISTENCY"]])
       \/ Set(p, [Queried(st[p], "CONSISTENCY", "original") EXCEPT !.nresp = @ + 1])
    /\ UNCHANGED llm_temperature

\* a lone response scored as no consistency at all
consistency_zero_alone(nresp, pair_sims) ==
    IF nresp < 2 THEN 0 ELSE Mean(pair_sims)

\* the score of the collected responses (42-64): pair_sims lists the cosine of
\* every pair i < j in loop order
consistency_of(nresp, pair_sims) ==
    IF nresp < 2 THEN Unit ELSE Mean(pair_sims)

\* only the neighbours compared: (1, 2), (2, 3), ...
RECURSIVE PairsAdjacent(_, _, _)
PairsAdjacent(i, j, n) ==
    IF i >= n THEN <<>> ELSE << <<i, i + 1>> >> \o PairsAdjacent(i + 1, i + 2, n)

\* the pairs visited by the loops of lines 48-51, from (i, j) on, numbered from 1
RECURSIVE PairsFrom(_, _, _)
PairsFrom(i, j, n) ==
    IF i > n THEN <<>>
    ELSE IF j > n THEN PairsFrom(i + 1, i + 2, n)
    ELSE << <<i, j>> >> \o PairsFrom(i, j + 1, n)

\* lines 41-64 on the collected responses (texts): sim is the cosine the encoder
\* gives for two different texts, a text against itself giving 100
check_consistency(responses, sim) ==
    LET pairs == IF Len(responses) < 2 THEN <<>> ELSE PairsFrom(1, 2, Len(responses))
        similarities == [k \in 1..Len(pairs) |->
                            SimOf(sim, responses[pairs[k][1]], responses[pairs[k][2]])]
    IN  [score |-> consistency_of(Len(responses), similarities),
         responses |-> responses,
         pairs |-> pairs]

ConsistencyScore(p, Sims) ==
    /\ st[p].pc = "CONSISTENCY"
    /\ st[p].nresp = st[p].num_tries
    /\ IF st[p].nresp < 2
       THEN Set(p, [st[p] EXCEPT !.pc = "WEAK_SENTENCES",
                                 !.consistency_score = consistency_of(st[p].nresp, <<>>)])
       ELSE \/ Raise(p, "encoder")
            \/ \E pair_sims \in SeqsOfLen(Sims, NumPairs(st[p].nresp)) :
                  Set(p, [st[p] EXCEPT
                             !.pc = "WEAK_SENTENCES",
                             !.consistency_score = consistency_of(st[p].nresp, pair_sims)])
    /\ UNCHANGED llm_temperature

(***************************************************************************)
(* Step 4, weak sentences (safety_checker.py 72).                          *)
(***************************************************************************)
\* a pipeline that goes from the weak sentences straight to the external check,
\* without the entropy estimation
WeakSentencesLast(p) ==
    /\ st[p].pc = "WEAK_SENTENCES"
    /\ Set(p, [st[p] EXCEPT
                  !.pc = "EXTERNAL_CHECK",
                  !.weak_sentences =
                      find_weak_sentences(st[p].answer.sentences, st[p].source_chunks,
                                          st[p].sims, DefaultWeakThreshold)])
    /\ UNCHANGED llm_temperature

WeakSentences(p) ==
    /\ st[p].pc = "WEAK_SENTENCES"
    /\ \/ /\ UsesEncoder(st[p].answer.sentences, st[p].source_chunks)
          /\ Raise(p, "encoder")
       \/ Set(p, [st[p] EXCEPT
                     !.pc = "ENT_READ",
                     !.ent_i = 0,
                     !.weak_sentences =
                         find_weak_sentences(st[p].answer.sentences, st[p].source_chunks,
                                             st[p].sims, DefaultWeakThreshold)])
    /\ UNCHANGED llm_temperature

(***************************************************************************)
(* Step 5, semantic entropy (entropy.py 10-70).  One turn of the sampling  *)
(* loop is four steps: read the handle's temperature, overwrite it, query, *)
(* write the value read back.  Nothing guards the handle between them.     *)
(***************************************************************************)
\* original_temp = getattr(llm, 'temperature', 0.1)   (34); the first read is
\* also the value the handle has when the function is entered
EntropyRead(p) ==
    /\ st[p].pc = "ENT_READ"
    /\ Set(p, [st[p] EXCEPT !.pc = "ENT_SET",
                            !.original_temp = llm_temperature,
                            !.entry_temp = IF st[p].ent_i = 0 THEN llm_temperature ELSE @])
    /\ UNCHANGED llm_temperature

\* llm.temperature = temperature   (35-36)
EntropySet(p) ==
    /\ st[p].pc = "ENT_SET"
    /\ llm_temperature' = HIGH_TEMPERATURE
    /\ Set(p, [st[p] EXCEPT !.pc = "ENT_QUERY"])

\* response = query_engine.query(question)   (38-39)
EntropyQuery(p) ==
    /\ st[p].pc = "ENT_QUERY"
    /\ \/ Set(p, [Queried(st[p], "ENTROPY", "original") EXCEPT
                     !.pc = "RAISED",
                     !.raised = [cause |-> "retrieval", stage |-> "ENTROPY"]])
       \/ Set(p, [Queried(st[p], "ENTROPY", "original") EXCEPT !.pc = "ENT_RESTORE"])
    /\ UNCHANGED llm_temperature

\* an entropy loop that takes num_tries samples instead of its own num_samples
EntropyRestoreByTries(p) ==
    /\ st[p].pc = "ENT_RESTORE"
    /\ llm_temperature' = st[p].original_temp
    /\ Set(p, [st[p] EXCEPT !.pc = IF st[p].ent_i + 1 < st[p].num_tries
                                   THEN "ENT_READ" ELSE "ENT_SCORE",
                            !.ent_i = @ + 1])

\* llm.temperature = original_temp   (42-43), and the next turn of the loop
EntropyRestore(p) ==
    /\ st[p].pc = "ENT_RESTORE"
    /\ llm_temperature' = st[p].original_temp
    /\ Set(p, [st[p] EXCEPT !.pc = IF st[p].ent_i + 1 < num_samples
                                   THEN "ENT_READ" ELSE "ENT_SCORE",
                            !.ent_i = @ + 1])

\* calculate_sentence_semantic_entropy and the classification (48-70)
EntropyScore(p, Entropies) ==
    /\ st[p].pc = "ENT_SCORE"
    /\ \/ Raise(p, "encoder")
       \/ \E e \in Entropies :
             Set(p, [st[p] EXCEPT !.pc = "EXTERNAL_CHECK",
                                  !.semantic_entropy = e,
                                  !.entropy_confidence = EntropyConfidence(e)])
    /\ UNCHANGED llm_temperature

(***************************************************************************)
(* Step 6, external fact check (safety_checker.py 88-96).                  *)
(***************************************************************************)
\* sizes of what the search and the sentence splitter return: nothing, or something
AbstractCounts == {0, 1}
ExtSentenceCounts == {0, 1}

\* what the external collaborators may do in one comprehensive_fact_check
ExternalWorlds(sentences, Sims) ==
    {[kw_raise |-> TRUE, abstracts |-> 0, ext_sentences |-> 0, enc_raise |-> FALSE,
      msg |-> m, ext_sims |-> <<>>] : m \in ErrMsgs}
    \cup
    {[kw_raise |-> FALSE, abstracts |-> a, ext_sentences |-> 0, enc_raise |-> FALSE,
      msg |-> "", ext_sims |-> <<>>] : a \in AbstractCounts}
    \cup
    {[kw_raise |-> FALSE, abstracts |-> a, ext_sentences |-> n, enc_raise |-> TRUE,
      msg |-> m, ext_sims |-> <<>>] :
        a \in AbstractCounts \ {0}, n \in ExtSentenceCounts \ {0},
        m \in IF sentences > 0 THEN ErrMsgs ELSE {}}
    \cup
    UNION {{[kw_raise |-> FALSE, abstracts |-> a, ext_sentences |-> n, enc_raise |-> FALSE,
             msg |-> "", ext_sims |-> x] : x \in Matrices(sentences, n, Sims)} :
           a \in AbstractCounts \ {0}, n \in ExtSentenceCounts \ {0}}

ExternalCheck(p, Sims) ==
    /\ st[p].pc = "EXTERNAL_CHECK"
    /\ st[p].enable_fact_check
    /\ \/ \* the internal check_answer_support raises: caught at line 94
          /\ UsesEncoder(st[p].answer.sentences, st[p].source_chunks)
          /\ \E m \in ErrMsgs :
                Set(p, [st[p] EXCEPT !.pc = "AGGREGATE",
                                     !.external_events = InternalRaised,
                                     !.fact_check_result = ErrorDict(m)])
       \/ \E w \in ExternalWorlds(st[p].answer.sentences, Sims) :
             Set(p, [st[p] EXCEPT
                        !.pc = "AGGREGATE",
                        !.external_events = EventsOf(w),
                        !.fact_check_result =
                            comprehensive_fact_check(st[p].answer.sentences,
                                                     st[p].source_chunks, st[p].sims, w)])
    /\ UNCHANGED llm_temperature

\* a skipped external stage that leaves an empty dict instead of None
SkipExternalEmptyDict(p) ==
    /\ st[p].pc = "EXTERNAL_CHECK"
    /\ ~st[p].enable_fact_check
    /\ Set(p, [st[p] EXCEPT !.pc = "AGGREGATE", !.fact_check_result = ErrorDict(NONE)])
    /\ UNCHANGED llm_temperature

\* enable_fact_check is false: fact_check_result stays None
SkipExternal(p) ==
    /\ st[p].pc = "EXTERNAL_CHECK"
    /\ ~st[p].enable_fact_check
    /\ Set(p, [st[p] EXCEPT !.pc = "AGGREGATE", !.fact_check_result = NoFactCheck])
    /\ UNCHANGED llm_temperature

(***************************************************************************)
(* Step 7, the assessment (safety_checker.py 98-164).                      *)
(***************************************************************************)
\* enable_fact_check and fact_check_result and not fact_check_result.get("error")
ExternalCounts(enable_fact_check, fact_check_result) ==
    /\ enable_fact_check
    /\ fact_check_result.is_dict
    /\ ~Truthy(fact_check_result.error)

\* the denominator of the three-stage aggregator kept after a fourth stage was added
max_score_always_three(enable_fact_check, fact_check_result) == 3

max_score_of(enable_fact_check, fact_check_result) ==
    IF ExternalCounts(enable_fact_check, fact_check_result) THEN 4 ELSE 3

safety_score_of(r) ==
      (IF r.attribution_score >= 60 * K THEN 1 ELSE 0)
    + (IF r.consistency_score >= 60 * K THEN 1 ELSE 0)
    + (IF r.entropy_confidence = "HIGH" THEN 1 ELSE 0)
    + (IF /\ ExternalCounts(r.enable_fact_check, r.fact_check_result)
          /\ r.fact_check_result.combined_score >= 600 * K
       THEN 1 ELSE 0)

\* the two boundaries taken as exclusive
confidence_strict(safety_score, max_score) ==
    IF 4 * safety_score > 3 * max_score THEN "HIGH CONFIDENCE"
    ELSE IF 2 * safety_score > max_score THEN "MEDIUM CONFIDENCE"
    ELSE "LOW CONFIDENCE"

\* confidence_ratio = safety_score / max_score against 0.75 and 0.5
confidence_of(safety_score, max_score) ==
    IF 4 * safety_score >= 3 * max_score THEN "HIGH CONFIDENCE"
    ELSE IF 2 * safety_score >= max_score THEN "MEDIUM CONFIDENCE"
    ELSE "LOW CONFIDENCE"

Aggregate(p) ==
    /\ st[p].pc = "AGGREGATE"
    /\ LET safety_score == safety_score_of(st[p])
           max_score == max_score_of(st[p].enable_fact_check, st[p].fact_check_result)
       IN  Set(p, [st[p] EXCEPT !.pc = "DONE",
                                !.safety_score = safety_score,
                                !.max_score = max_score,
                                !.confidence = confidence_of(safety_score, max_score)])
    /\ UNCHANGED llm_temperature

\* handle_query formats the returned assessment (routes.py 51-56)
Respond(p) ==
    /\ st[p].pc = "DONE"
    /\ Set(p, [st[p] EXCEPT !.pc = "RESPONDED",
                            !.response = format_safety_response(st[p])])
    /\ UNCHANGED llm_temperature

\* handle_query is over (the response or the HTTP 500 is sent): the handler is
\* free for the next request
Finish(p) ==
    /\ st[p].pc \in {"RESPONDED", "RAISED"}
    /\ Set(p, Idle)
    /\ UNCHANGED llm_temperature

(***************************************************************************)
(* Spec: one handler serves requests one after another on the shared       *)
(* handle (handle_query is a coroutine that never awaits inside the call). *)
(***************************************************************************)
Sentences == 0..MaxSent
Tries == 0..MaxTries

Step(p) ==
    \/ Start(p, Requests(Tries))
    \/ RetrieveDirect(p, Sentences, PipelineSources)
    \/ Decompose(p, 0..MaxSubQ)
    \/ SubQuery(p, Sentences, PipelineSources)
    \/ Synthesize(p, Sentences)
    \/ Attribution(p, SimVals)
    \/ ConsistencyQuery(p)
    \/ ConsistencyScore(p, SimVals)
    \/ WeakSentences(p)
    \/ EntropyRead(p)
    \/ EntropySet(p)
    \/ EntropyQuery(p)
    \/ EntropyRestore(p)
    \/ EntropyScore(p, EntropyVals)
    \/ ExternalCheck(p, SimVals)
    \/ SkipExternal(p)
    \/ Aggregate(p)
    \/ Respond(p)
    \/ Finish(p)

Next == Step(1)

Spec == Init /\ [][Next]_vars

(***************************************************************************)
(* SpecConc: two handlers run comprehensive_safety_check at the same time  *)
(* on the shared handle (threads of a caller that does not serialize the   *)
(* calls), each serving one single-stage request without external check,   *)
(* with collaborators that give one fixed answer.  Any interleaving of the *)
(* handlers' steps is a behaviour; a handler serves one request.           *)
(***************************************************************************)
ConcRequests ==
    [use_multi_stage : {FALSE}, enable_fact_check : {FALSE}, num_tries : {1}]

StepConc(p) ==
    \/ Start(p, ConcRequests)
    \/ RetrieveDirect(p, {1}, {<<1>>})
    \/ Attribution(p, {100})
    \/ ConsistencyQuery(p)
    \/ ConsistencyScore(p, {100})
    \/ WeakSentences(p)
    \/ EntropyRead(p)
    \/ EntropySet(p)
    \/ EntropyQuery(p)
    \/ EntropyRestore(p)
    \/ EntropyScore(p, {0})
    \/ SkipExternal(p)
    \/ Aggregate(p)

NextConc == \E p \in Procs : StepConc(p)

SpecConc == Init /\ [][NextConc]_vars

(***************************************************************************)
(* SpecEntropy: calculate_sentence_semantic_entropy called on its own, on  *)
(* every list of responses of at most MaxAll sentences and every encoder.  *)
(* Only the equality of two texts matters, so texts are numbered in the    *)
(* order of their first occurrence.                                        *)
(***************************************************************************)
\* sentence lists of length n whose texts are numbered by first occurrence
SentenceLists(n) ==
    {s \in [1..n -> 1..n] :
        \A i \in 1..n : \A t \in 1..(s[i] - 1) : \E k \in 1..(i - 1) : s[k] = t}

\* the number of different texts of such a list
NumTexts(s) == Cardinality({s[i] : i \in 1..Len(s)})

\* the list cut into responses: cuts holds the positions that end a response
RECURSIVE CutInto(_, _, _, _)
CutInto(s, cuts, i, current) ==
    IF i > Len(s) THEN <<>>
    ELSE IF i \in cuts \/ i = Len(s)
    THEN <<Append(current, s[i])>> \o CutInto(s, cuts, i + 1, <<>>)
    ELSE CutInto(s, cuts, i + 1, Append(current, s[i]))

ResponseLists ==
    {<<>>, << <<>> >>, << <<>>, <<>> >>}
    \cup UNION {{CutInto(s, cuts, 1, <<>>) : cuts \in SUBSET (1..(Len(s) - 1))} :
                    s \in UNION {SentenceLists(n) : n \in 1..MaxAll}}

\* at the threshold, and above it
ClusterSims == {70, 80}

Encoders(d) == [{<<a, b>> \in (1..d) \X (1..d) : a < b} -> ClusterSims]

CallEntropy ==
    /\ call.fn = "none"
    /\ \E responses \in ResponseLists :
          \E sim \in Encoders(NumTexts(Flatten(responses))) :
             call' = [fn |-> "calculate_sentence_semantic_entropy",
                      responses |-> responses,
                      sim |-> sim,
                      result |-> calculate_sentence_semantic_entropy(responses, sim)]
    /\ UNCHANGED <<llm_temperature, st>>

\* the orders of n sentences that exchange two of them, or none
Exchanges(n) ==
    {[k \in 1..n |-> IF k = i THEN j ELSE IF k = j THEN i ELSE k] : i, j \in 1..n}

\* the same sentences and the same encoder, the sentences given in two orders
CallEntropyReordered ==
    /\ call.fn = "none"
    /\ \E n \in 2..MaxAll :
          \E s \in SentenceLists(n) :
          \E sim \in Encoders(NumTexts(s)) :
          \E order \in Exchanges(n) :
             LET reordered == [k \in 1..n |-> s[order[k]]]
             IN  call' = [fn |-> "calculate_sentence_semantic_entropy in two orders",
                          sim |-> sim,
                          result |-> calculate_sentence_semantic_entropy(<<s>>, sim),
                          reordered |->
                              calculate_sentence_semantic_entropy(<<reordered>>, sim)]
    /\ UNCHANGED <<llm_temperature, st>>

NextEntropy == CallEntropy \/ CallEntropyReordered

SpecEntropy == Init /\ [][NextEntropy]_vars

(***************************************************************************)
(* SpecAttribution: check_answer_support and find_weak_sentences called on *)
(* their own, on every answer text of at most MaxChars characters, every   *)
(* list of at most MaxChunks source chunks and every encoder: one that     *)
(* raises, or one that gives any cosine matrix.                            *)
(***************************************************************************)
Chars == {"a", " ", ".", "!", "?"}
Answers == UNION {SeqsOfLen(Chars, n) : n \in 0..MaxChars}
SourceLists == {[i \in 1..k |-> i] : k \in 0..MaxChunks}

\* cosines the encoder may give: negative, at the weak-sentence threshold, 1.0
CosineVals == {-20, 50, 100}

AttributionEncoders(rows, cols) ==
    {[raises |-> TRUE, sims |-> <<>>]}
    \cup IF rows > 0 /\ cols > 0
         THEN {[raises |-> FALSE, sims |-> m] : m \in Matrices(rows, cols, CosineVals)}
         ELSE {[raises |-> FALSE, sims |-> <<>>]}

CallCheckAnswerSupport ==
    /\ call.fn = "none"
    /\ \E answer \in Answers, source_chunks \in SourceLists :
          LET sentences == Len(SplitSentences(answer))
          IN  \E encoder \in AttributionEncoders(sentences, Len(source_chunks)) :
                 call' = [fn |-> "check_answer_support",
                          answer |-> answer,
                          source_chunks |-> source_chunks,
                          encoder |-> encoder,
                          encoder_called |-> UsesEncoder(sentences, source_chunks),
                          raised |-> UsesEncoder(sentences, source_chunks) /\ encoder.raises,
                          result |-> IF UsesEncoder(sentences, source_chunks) /\ encoder.raises
                                     THEN [overall |-> 0, sentence_scores |-> <<>>]
                                     ELSE check_answer_support(sentences, source_chunks,
                                                               encoder.sims)]
    /\ UNCHANGED <<llm_temperature, st>>

CallFindWeakSentences ==
    /\ call.fn = "none"
    /\ \E answer \in Answers, source_chunks \in SourceLists :
          LET sentences == Len(SplitSentences(answer))
          IN  \E encoder \in AttributionEncoders(sentences, Len(source_chunks)) :
                 call' = [fn |-> "find_weak_sentences",
                          answer |-> answer,
                          source_chunks |-> source_chunks,
                          encoder |-> encoder,
                          encoder_called |-> UsesEncoder(sentences, source_chunks),
                          raised |-> UsesEncoder(sentences, source_chunks) /\ encoder.raises,
                          result |-> IF UsesEncoder(sentences, source_chunks) /\ encoder.raises
                                     THEN <<>>
                                     ELSE find_weak_sentences(sentences, source_chunks,
                                                              encoder.sims,
                                                              DefaultWeakThreshold)]
    /\ UNCHANGED <<llm_temperature, st>>

\* thresholds given to find_weak_sentences: below, at and above the cosine 0.5
WeakThresholds == {0, 50, 60}

\* the same answer, sources and (deterministic) encoder given to
\* check_answer_support and to find_weak_sentences at two thresholds t1 < t2
CallWeakAtThresholds ==
    /\ call.fn = "none"
    /\ \E answer \in Answers, source_chunks \in SourceLists :
          LET sentences == Len(SplitSentences(answer))
          IN  \E encoder \in AttributionEncoders(sentences, Len(source_chunks)) :
              \E t1, t2 \in WeakThresholds :
                 /\ ~encoder.raises
                 /\ t1 < t2
                 /\ call' = [fn |-> "find_weak_sentences at two thresholds",
                             answer |-> answer,
                             source_chunks |-> source_chunks,
                             encoder |-> encoder,
                             t1 |-> t1,
                             t2 |-> t2,
                             support |-> check_answer_support(sentences, source_chunks,
                                                              encoder.sims),
                             weak1 |-> find_weak_sentences(sentences, source_chunks,
                                                           encoder.sims, t1),
                             weak2 |-> find_weak_sentences(sentences, source_chunks,
                                                           encoder.sims, t2)]
    /\ UNCHANGED <<llm_temperature, st>>

NextAttribution == CallCheckAnswerSupport \/ CallFindWeakSentences \/ CallWeakAtThresholds

SpecAttribution == Init /\ [][NextAttribution]_vars

(***************************************************************************)
(* SpecConsistency: the scoring of check_consistency called on its own, on *)
(* every list of at most MaxResp responses the engine may return and every *)
(* encoder, and once more on the same responses collected in another order.*)
(***************************************************************************)
ResponseTexts == UNION {SentenceLists(n) : n \in 0..MaxResp}

ResponseEncoders(d) ==
    {[raises |-> r, sim |-> f] :
        r \in BOOLEAN, f \in [{<<a, b>> \in (1..d) \X (1..d) : a < b} -> SimVals]}

Orders(n) == {f \in [1..n -> 1..n] : \A i, j \in 1..n : f[i] = f[j] => i = j}

CallCheckConsistency ==
    /\ call.fn = "none"
    /\ \E responses \in ResponseTexts :
          \E encoder \in ResponseEncoders(NumTexts(responses)) :
          \E order \in Orders(Len(responses)) :
             LET num_tries == Len(responses)
                 reordered == [i \in 1..num_tries |-> responses[order[i]]]
             IN  call' = [fn |-> "check_consistency",
                          num_tries |-> num_tries,
                          encoder |-> encoder,
                          encoder_called |-> num_tries >= 2,
                          raised |-> num_tries >= 2 /\ encoder.raises,
                          result |-> check_consistency(responses, encoder.sim),
                          reordered |-> check_consistency(reordered, encoder.sim)]
    /\ UNCHANGED <<llm_temperature, st>>

NextConsistency == CallCheckConsistency

SpecConsistency == Init /\ [][NextConsistency]_vars

(***************************************************************************)
(* SpecMerge: the source merge of multi_stage_retrieval on its own, on     *)
(* every list of at most MaxSubQ sub-questions whose queries return at     *)
(* most MaxChunks source nodes each (a node is identified with its text; a *)
(* query may return the same text twice).                                  *)
(***************************************************************************)
SourceTexts == {1, 2, 3}

SubQuestionSources ==
    UNION {SeqsOfLen(UNION {SeqsOfLen(SourceTexts, k) : k \in 0..MaxChunks}, n) :
              n \in 0..MaxSubQ}

CallMergeSources ==
    /\ call.fn = "none"
    /\ \E sub_sources \in SubQuestionSources :
          call' = [fn |-> "multi_stage_retrieval sources",
                   sub_sources |-> sub_sources,
                   all_sources |-> MergeAll(<<>>, sub_sources)]
    /\ UNCHANGED <<llm_temperature, st>>

NextMerge == CallMergeSources

SpecMerge == Init /\ [][NextMerge]_vars

(***************************************************************************)
(* SpecSearch: search_semantic_scholar called on its own, on every failure *)
(* of the request and every answer of at most MaxArticles articles.        *)
(***************************************************************************)
SearchFailures == {"network", "rate-limit", "parse"}
ArticleAbstracts == {NONE, "", "abstract"}

SearchOutcomes ==
    {[kind |-> k, articles |-> <<>>] : k \in SearchFailures}
    \cup {[kind |-> "ok", articles |-> a] :
              a \in UNION {SeqsOfLen(ArticleAbstracts, n) : n \in 0..MaxArticles}}

CallSearch ==
    /\ call.fn = "none"
    /\ \E outcome \in SearchOutcomes :
          call' = [fn |-> "search_semantic_scholar",
                   outcome |-> outcome,
                   result |-> search_semantic_scholar(outcome)]
    /\ UNCHANGED <<llm_temperature, st>>

NextSearch == CallSearch

SpecSearch == Init /\ [][NextSearch]_vars

(***************************************************************************)
(* The claims.                                                             *)
(***************************************************************************)
Returned(p) == st[p].pc = "DONE"

\* the external stage ran and nothing in it failed: the internal scoring and the
\* keyword extraction did not raise, the search returned an abstract, a sentence
\* was extracted, the external scoring did not raise
ExternalSucceeded(r) ==
    /\ r.enable_fact_check
    /\ r.external_events.run
    /\ ~r.external_events.internal_raise
    /\ ~r.external_events.kw_raise
    /\ r.external_events.abstracts > 0
    /\ r.external_events.ext_sentences > 0
    /\ ~r.external_events.enc_raise

ExternalStageFailed(r) ==
    r.enable_fact_check /\ r.external_events.run /\ ~ExternalSucceeded(r)

\* the stages that pass among attribution, consistency and entropy
InternalPasses(r) ==
      (IF r.attribution_score >= 60 * K THEN 1 ELSE 0)
    + (IF r.consistency_score >= 60 * K THEN 1 ELSE 0)
    + (IF r.entropy_confidence = "HIGH" THEN 1 ELSE 0)

\* C1: in every returned assessment, max_safety_score is 4 exactly when external
\* checking was enabled and completed without error, and 3 in every other case
\* (a search with zero abstracts included).
C1_MaxScoreIffExternalSucceeded ==
    \A p \in Procs :
        Returned(p) =>
            st[p].max_score = IF ExternalSucceeded(st[p]) THEN 4 ELSE 3

\* C2: when the external check failed, safety_score is the number of passed
\* stages among attribution, consistency and entropy: the external stage adds
\* nothing.
C2_FailedExternalAddsNothing ==
    \A p \in Procs :
        (Returned(p) /\ ExternalStageFailed(st[p])) =>
            st[p].safety_score = InternalPasses(st[p])

\* C3: every returned assessment has 0 <= safety_score <= max_safety_score and
\* max_safety_score in {3, 4}.
C3_ScoreWithinMax ==
    \A p \in Procs :
        Returned(p) =>
            /\ 0 <= st[p].safety_score
            /\ st[p].safety_score <= st[p].max_score
            /\ st[p].max_score \in {3, 4}

\* a multi-stage assessment whose external stage failed and whose every counted
\* stage passed
C3_Witness ==
    \E p \in Procs :
        /\ Returned(p)
        /\ st[p].use_multi_stage
        /\ ExternalStageFailed(st[p])
        /\ st[p].max_score = 4
        /\ st[p].safety_score = st[p].max_score

\* calculate_semantic_entropy has been left: by its return, or by an exception of
\* one of its retrieval calls
EntropyReturned(p) == st[p].pc \in {"EXTERNAL_CHECK", "AGGREGATE", "DONE", "RESPONDED"}
EntropyRaised(p) ==
    st[p].pc = "RAISED" /\ st[p].raised = [cause |-> "retrieval", stage |-> "ENTROPY"]

\* C4: with one thread, whenever calculate_semantic_entropy has been left, by
\* return or by an exception of a retrieval call, llm.temperature is the value it
\* had on entry.
C4_TemperatureRestoredOnExit ==
    \A p \in Procs :
        (EntropyReturned(p) \/ EntropyRaised(p)) =>
            llm_temperature = st[p].entry_temp

\* C5: with concurrent assessments on one handle, no retrieval call of the
\* RETRIEVE or CONSISTENCY stage of an assessment runs while llm.temperature holds
\* the elevated value written by another assessment's entropy stage.
C5_NoElevatedTemperatureInOtherStages ==
    \A p \in Procs :
        \A o \in st[p].seen_temps :
            o.stage \in {"RETRIEVE", "CONSISTENCY"} =>
                o.temperature # HIGH_TEMPERATURE

\* C6: when concurrent entropy estimations on one handle have all finished,
\* llm.temperature is the value it had before any of them started.
C6_TemperatureRestoredAfterAll ==
    (\A p \in Procs : EntropyReturned(p)) =>
        llm_temperature = DEFAULT_TEMPERATURE

\* the retrieval step of the assessment is over
Retrieved(p) == st[p].pc \notin {"idle", "RETRIEVE", "SUBQ", "SYNTH", "RAISED"}

\* C7: when use_multi_stage is true and no sub-question was parsed, the answer and
\* the source chunks are those of one direct retrieval query on the original
\* question.
C7_NoSubQuestionsFallsBack ==
    \A p \in Procs :
        (Retrieved(p) /\ st[p].use_multi_stage /\ st[p].sub_questions = 0) =>
            /\ st[p].answer.by = "query"
            /\ st[p].answer.q = "original"
            /\ \E o \in st[p].seen_temps : o.stage = "RETRIEVE"

\* C8: an exception leaves comprehensive_safety_check only when a retrieval-engine
\* query failed.
C8_OnlyRetrievalFailureIsFatal ==
    \A p \in Procs :
        st[p].pc = "RAISED" => st[p].raised.cause = "retrieval"

\* comprehensive_fact_check returned, and its search had returned no abstract
SearchFoundNothing(r) ==
    /\ r.external_events.run
    /\ ~r.external_events.internal_raise
    /\ ~r.external_events.kw_raise
    /\ r.external_events.abstracts = 0

\* C9: when the literature search returns zero abstracts, the external support
\* score is 0.0, the external evidence carries a non-empty error tag,
\* combined_score equals internal_score and reliability is "internal_only".
C9_ZeroAbstracts ==
    \A p \in Procs :
        SearchFoundNothing(st[p]) =>
            /\ st[p].fact_check_result.external_score = 0
            /\ Truthy(st[p].fact_check_result.external_details.error)
            /\ st[p].fact_check_result.combined_score
                   = 10 * st[p].fact_check_result.internal_score
            /\ st[p].fact_check_result.reliability = "internal_only"

\* the search returned nothing for an answer that its internal sources support
C9_Witness ==
    \E p \in Procs :
        /\ SearchFoundNothing(st[p])
        /\ st[p].fact_check_result.internal_score > 0
        /\ st[p].fact_check_result.reliability = "internal_only"

\* comprehensive_fact_check returned
FactCheckReturned(r) == r.external_events.run /\ ~r.external_events.internal_raise

\* C10: for every outcome of comprehensive_fact_check, when the external lookup
\* failed in any way (an exception with an empty message included) reliability is
\* "internal_only" and combined_score equals internal_score; otherwise
\* reliability is "internal_and_external" and combined_score is
\* 0.7 * internal_score + 0.3 * external_score.
C10_CombinedScore ==
    \A p \in Procs :
        FactCheckReturned(st[p]) =>
            LET f == st[p].fact_check_result
            IN  IF ExternalSucceeded(st[p])
                THEN /\ f.reliability = "internal_and_external"
                     /\ f.combined_score = 7 * f.internal_score + 3 * f.external_score
                ELSE /\ f.reliability = "internal_only"
                     /\ f.combined_score = 10 * f.internal_score

\* the response of handle_query has been built
Responded(p) == st[p].pc = "RESPONDED"

\* the record tells the user that external validation failed: it has no
\* external_validation entry, or the entry's recommendation says so
MarksExternalUnavailable(response) ==
    \/ ~response.external_validation.present
    \/ response.external_validation.recommendation
           = "Well-supported by internal sources, but external validation unavailable"

\* C11: when fact checking was enabled and the external lookup failed, the record
\* built by format_safety_response marks external validation as failed or
\* unavailable; it never carries an external_validation entry with a score and
\* no failure marker.
C11_FailedExternalIsMarked ==
    \A p \in Procs :
        (Responded(p) /\ ExternalStageFailed(st[p])) =>
            MarksExternalUnavailable(st[p].response)

\* 1 when the external stage completed without error with a combined score of
\* 0.6 or more, else 0
ExternalPasses(r) ==
    IF ExternalSucceeded(r) /\ r.fact_check_result.combined_score >= 600 * K
    THEN 1 ELSE 0

\* C12: safety_score is the number of stages that pass: attribution iff
\* attribution_score >= 0.6, consistency iff consistency_score >= 0.6, entropy iff
\* its confidence is HIGH, external iff it completed without error and its
\* combined score >= 0.6; a score of exactly 0.6 passes.
C12_ScoreCountsPassingStages ==
    \A p \in Procs :
        Returned(p) => st[p].safety_score = InternalPasses(st[p]) + ExternalPasses(st[p])

\* C13: confidence is HIGH iff safety_score / max_safety_score >= 0.75, MEDIUM
\* iff the ratio is >= 0.5 and < 0.75, LOW otherwise, boundaries inclusive: 3/4,
\* 3/3 and 4/4 give HIGH, 2/4 and 2/3 give MEDIUM, 1/3, 1/4 and 0 give LOW.
C13_ConfidenceFromRatio ==
    \A p \in Procs :
        Returned(p) =>
            LET pair == <<st[p].safety_score, st[p].max_score>>
            IN  /\ pair \in {<<3, 4>>, <<4, 4>>, <<3, 3>>}
                       <=> st[p].confidence = "HIGH CONFIDENCE"
                /\ pair \in {<<2, 4>>, <<2, 3>>}
                       <=> st[p].confidence = "MEDIUM CONFIDENCE"
                /\ pair \in {<<1, 3>>, <<1, 4>>, <<0, 3>>, <<0, 4>>}
                       <=> st[p].confidence = "LOW CONFIDENCE"

\* an assessment exactly on the upper boundary: three stages of four passed
C13_Witness ==
    \E p \in Procs :
        /\ Returned(p)
        /\ st[p].safety_score = 3
        /\ st[p].max_score = 4
        /\ st[p].confidence = "HIGH CONFIDENCE"

\* the place of a position in the pipeline of one assessment
StageRank(pc) ==
    CASE StageOf(pc) = "idle" -> 0
      [] StageOf(pc) = "RETRIEVE" -> 1
      [] StageOf(pc) = "ATTRIBUTION" -> 2
      [] StageOf(pc) = "CONSISTENCY" -> 3
      [] StageOf(pc) = "WEAK_SENTENCES" -> 4
      [] StageOf(pc) = "ENTROPY" -> 5
      [] StageOf(pc) = "EXTERNAL_CHECK" -> 6
      [] StageOf(pc) = "AGGREGATE" -> 7
      [] StageOf(pc) = "DONE" -> 8
      [] OTHER -> 9

\* C14: within one assessment the stages run in the order RETRIEVE, ATTRIBUTION,
\* CONSISTENCY, WEAK_SENTENCES, ENTROPY, optional EXTERNAL_CHECK, AGGREGATE,
\* DONE: a step stays in its stage, enters the next one, or leaves by an
\* exception; no stage is entered twice and DONE is reached at most once.
C14_StagesInOrder ==
    [][\A p \in Procs :
          LET from == st[p].pc
              to == st'[p].pc
          IN  /\ (from \in {"RESPONDED", "RAISED"} /\ to # from) => to = "idle"
              /\ (from \notin {"RESPONDED", "RAISED"} /\ to # from) =>
                     \/ StageRank(to) = StageRank(from)
                     \/ StageRank(to) = StageRank(from) + 1
                     \/ to = "RAISED" /\ from \notin {"idle", "DONE"}]_vars

\* an assessment that ran every stage, the external one included, and returned
C14_Witness ==
    \E p \in Procs :
        /\ Returned(p)
        /\ st[p].enable_fact_check
        /\ st[p].external_events.run
        /\ st[p].num_tries = MaxTries
        /\ st[p].nqueries = 1 + MaxTries + num_samples

\* calculate_sentence_semantic_entropy has been called on its own
EntropyCalled == call.fn = "calculate_sentence_semantic_entropy"

\* at least two responses, all with the same text
IdenticalResponses(responses) ==
    /\ Len(responses) >= 2
    /\ \A i, j \in 1..Len(responses) : responses[i] = responses[j]

\* C15: when all sampled responses are textually identical, whatever the number
\* of sentences each holds, the clustering yields a single cluster and the
\* semantic entropy is 0.0.
C15_IdenticalResponsesZeroEntropy ==
    (EntropyCalled /\ IdenticalResponses(call.responses)) =>
        /\ call.result.entropy = 0
        /\ call.result.clustered => Len(call.result.clusters) = 1

\* every two sentences of the list have a similarity of 0.7 or less
MutuallyDissimilar(all_sentences, sim) ==
    \A i, j \in 1..Len(all_sentences) :
        i < j => SimOf(sim, all_sentences[i], all_sentences[j]) <= 70

\* C16: n >= 2 mutually dissimilar sentences (every pairwise similarity <= 0.7)
\* give n clusters of size 1 and the entropy log2(n): 1.0 for n = 2, 2.0 for
\* n = 4.
C16_DissimilarSentencesLogN ==
    (/\ EntropyCalled
     /\ Len(call.result.all_sentences) >= 2
     /\ MutuallyDissimilar(call.result.all_sentences, call.sim)) =>
        LET n == Len(call.result.all_sentences)
            clusters == call.result.clusters
        IN  /\ call.result.clustered
            /\ Len(clusters) = n
            /\ \A k \in 1..n : Len(clusters[k]) = 1
            /\ call.result.entropy = Log2Centi(n)
            /\ n = 2 => call.result.entropy = 100
            /\ n = 4 => call.result.entropy = 200

\* four sentences, every pair exactly at the threshold
C16_Witness ==
    /\ EntropyCalled
    /\ Len(call.result.all_sentences) = 4
    /\ MutuallyDissimilar(call.result.all_sentences, call.sim)
    /\ call.result.entropy = 200

\* the clusters a sentence index belongs to, with their positions in the cluster
PlacesOf(clusters, index) ==
    {<<k, m>> \in (1..Len(clusters)) \X (1..MaxAll + 1) :
        m <= Len(clusters[k]) /\ clusters[k][m] = index}

\* C17: after the greedy clustering, for every similarity matrix and every
\* sentence count >= 2, the clusters partition the sentence indices: every index
\* is in exactly one cluster, no cluster is empty, and the sizes sum to the
\* number of sentences.
C17_ClustersPartition ==
    (EntropyCalled /\ call.result.clustered) =>
        LET n == Len(call.result.all_sentences)
            clusters == call.result.clusters
        IN  /\ \A index \in 1..n : Cardinality(PlacesOf(clusters, index)) = 1
            /\ \A k \in 1..Len(clusters) :
                   /\ Len(clusters[k]) >= 1
                   /\ \A m \in 1..Len(clusters[k]) : clusters[k][m] \in 1..n
            /\ SumSeq([k \in 1..Len(clusters) |-> Len(clusters[k])]) = n

\* a clustering where a sentence similar to two seeds that are not similar to
\* each other has been taken by the first of them
C17_Witness ==
    /\ EntropyCalled
    /\ call.result.clustered
    /\ call.result.clusters = << <<1, 3>>, <<2>> >>
    /\ Similar(SimOf(call.sim, call.result.all_sentences[2], call.result.all_sentences[3]))

\* C18: the entropy confidence is LOW for an entropy >= 2.0, MEDIUM for
\* 1.0 <= entropy < 2.0 and HIGH for an entropy < 1.0; an entropy of exactly 1.0
\* is MEDIUM and fails the aggregator's entropy stage, one of exactly 2.0 is LOW.
C18_EntropyClassification ==
    \A p \in Procs :
        EntropyReturned(p) =>
            LET e == st[p].semantic_entropy
            IN  /\ e >= 200 <=> st[p].entropy_confidence = "LOW"
                /\ (100 <= e /\ e < 200) <=> st[p].entropy_confidence = "MEDIUM"
                /\ e < 100 <=> st[p].entropy_confidence = "HIGH"
                /\ (Returned(p) /\ e >= 100) => st[p].safety_score < st[p].max_score

\* an assessment with an entropy of exactly 1.0 whose other stages all passed
C18_Witness ==
    \E p \in Procs :
        /\ Returned(p)
        /\ st[p].semantic_entropy = 100
        /\ st[p].entropy_confidence = "MEDIUM"
        /\ st[p].safety_score = st[p].max_score - 1

\* C19: for every answer, every source set and every encoder, whose cosines may
\* be anywhere in [-1, 1], the overall score and every per-sentence score
\* returned by check_answer_support lie in [0, 1].
C19_AttributionInUnitInterval ==
    (call.fn = "check_answer_support" /\ ~call.raised) =>
        /\ 0 <= call.result.overall
        /\ call.result.overall <= Unit
        /\ \A i \in 1..Len(call.result.sentence_scores) :
               /\ 0 <= call.result.sentence_scores[i]
               /\ call.result.sentence_scores[i] <= 100

\* the text holds nothing but blanks and the separators '.', '!' and '?'
NoSentenceIn(answer) == \A i \in 1..Len(answer) : answer[i] \in {" ", ".", "!", "?"}

\* C20: when the answer yields no non-blank sentence after splitting on '.', '!'
\* and '?', or the source list is empty, check_answer_support returns exactly
\* (0.0, []) and find_weak_sentences returns [], without raising and without
\* calling the encoder.
C20_EmptyInputs ==
    (/\ call.fn \in {"check_answer_support", "find_weak_sentences"}
     /\ NoSentenceIn(call.answer) \/ call.source_chunks = <<>>) =>
        /\ ~call.raised
        /\ ~call.encoder_called
        /\ call.fn = "check_answer_support" =>
               call.result = [overall |-> 0, sentence_scores |-> <<>>]
        /\ call.fn = "find_weak_sentences" => call.result = <<>>

\* an answer of blanks and separators scored against a source with an encoder
\* that would raise if it were called
C20_Witness ==
    /\ call.fn = "check_answer_support"
    /\ Len(call.answer) = MaxChars
    /\ NoSentenceIn(call.answer)
    /\ \E i \in 1..Len(call.answer) : call.answer[i] = " "
    /\ \E i \in 1..Len(call.answer) : call.answer[i] = "?"
    /\ call.source_chunks # <<>>
    /\ call.encoder.raises
    /\ call.result.overall = 0

\* find_weak_sentences has been called at two thresholds on the same arguments
WeakCompared == call.fn = "find_weak_sentences at two thresholds"

Entries(weak) == {weak[k] : k \in 1..Len(weak)}

\* C21: for a fixed answer, source set and encoder and thresholds t1 <= t2, every
\* sentence returned by find_weak_sentences at t1 is also returned at t2.
C21_WeakSetMonotonic ==
    WeakCompared => Entries(call.weak1) \subseteq Entries(call.weak2)

\* raising the threshold from 0.5 to 0.6 added a sentence to a non-empty weak set
C21_Witness ==
    /\ WeakCompared
    /\ call.t1 = 50
    /\ call.t2 = 60
    /\ call.weak1 # <<>>
    /\ Len(call.weak2) > Len(call.weak1)

\* weak lists exactly the sentences whose score in sentence_scores is strictly
\* below t, in increasing index order, each with that score
ReportsBelow(weak, sentence_scores, t) ==
    /\ \A k \in 1..Len(weak) :
           /\ weak[k].index \in 0..(Len(sentence_scores) - 1)
           /\ weak[k].score = sentence_scores[weak[k].index + 1]
           /\ weak[k].score < t
    /\ \A k \in 1..(Len(weak) - 1) : weak[k].index < weak[k + 1].index
    /\ \A i \in 1..Len(sentence_scores) :
           sentence_scores[i] < t => \E k \in 1..Len(weak) : weak[k].index = i - 1

\* C22: for the same answer, sources and encoder, find_weak_sentences(t) returns,
\* in increasing index order, exactly the entries of the sentences whose
\* per-sentence score of check_answer_support is strictly below t, with the same
\* score; a sentence whose best score equals t is not reported.
C22_WeakMatchesSupport ==
    WeakCompared =>
        /\ ReportsBelow(call.weak1, call.support.sentence_scores, call.t1)
        /\ ReportsBelow(call.weak2, call.support.sentence_scores, call.t2)

\* two sentences, one scored below the threshold 0.5 and one exactly at it
C22_Witness ==
    /\ WeakCompared
    /\ call.t1 = 50
    /\ Len(call.support.sentence_scores) = 2
    /\ call.support.sentence_scores[1] = 50
    /\ call.support.sentence_scores[2] < 50
    /\ Len(call.weak1) = 1

\* check_consistency has returned to the aggregator
ConsistencyReturned(p) ==
    st[p].pc \in {"WEAK_SENTENCES", "ENT_READ", "ENT_SET", "ENT_QUERY", "ENT_RESTORE",
                  "ENT_SCORE", "EXTERNAL_CHECK", "AGGREGATE", "DONE", "RESPONDED"}

\* C23: check_consistency with num_tries < 2 (0 or 1) returns a consistency
\* score of exactly 1.0 together with exactly num_tries responses, without
\* consulting the encoder (so no failure of the encoder can leave it).
C23_FewTriesScoreOne ==
    \A p \in Procs :
        st[p].num_tries < 2 =>
            /\ ConsistencyReturned(p) =>
                   /\ st[p].consistency_score = Unit
                   /\ st[p].nresp = st[p].num_tries
            /\ (st[p].pc = "RAISED" /\ st[p].raised.stage = "CONSISTENCY") =>
                   st[p].raised.cause # "encoder"

\* an assessment with a single consistency try has returned
C23_Witness ==
    \E p \in Procs :
        /\ Returned(p)
        /\ st[p].num_tries = 1
        /\ st[p].nresp = 1
        /\ st[p].consistency_score = Unit

\* C24: for num_tries >= 2 the consistency score is the mean of the similarity
\* over every unordered pair of responses, each pair counted exactly once, and
\* is the same for every order in which the responses were collected.
C24_ConsistencyOverUnorderedPairs ==
    (call.fn = "check_consistency" /\ call.num_tries >= 2 /\ ~call.raised) =>
        LET n == call.num_tries
            pairs == call.result.pairs
        IN  /\ \A i, j \in 1..n :
                   i < j => Cardinality({k \in 1..Len(pairs) :
                                            pairs[k] \in {<<i, j>>, <<j, i>>}}) = 1
            /\ Len(pairs) = NumPairs(n)
            /\ call.result.score = call.reordered.score

\* three different responses with three different similarities, collected
\* in two different orders
C24_Witness ==
    /\ call.fn = "check_consistency"
    /\ call.num_tries = 3
    /\ ~call.raised
    /\ call.result.responses # call.reordered.responses
    /\ Cardinality({call.encoder.sim[x] : x \in DOMAIN call.encoder.sim}) = 3
    /\ call.result.score = call.reordered.score

\* the position of the first occurrence of x in s
FirstAt(s, x) == CHOOSE i \in 1..Len(s) : s[i] = x /\ \A j \in 1..(i - 1) : s[j] # x

\* C25: after multi_stage_retrieval the merged source list holds no two entries
\* with the same text, holds the text of every source returned for any
\* sub-question, and keeps the sources in the order of their first occurrence
\* across the sub-questions.
C25_MergedSources ==
    call.fn = "multi_stage_retrieval sources" =>
        LET merged == call.all_sources
            returned == Flatten(call.sub_sources)
        IN  /\ \A i, j \in 1..Len(merged) : merged[i] = merged[j] => i = j
            /\ {merged[i] : i \in 1..Len(merged)} = {returned[i] : i \in 1..Len(returned)}
            /\ \A i, j \in 1..Len(merged) :
                   i < j => FirstAt(returned, merged[i]) < FirstAt(returned, merged[j])

\* two sub-questions, the second returning a text of the first and a new one
C25_Witness ==
    /\ call.fn = "multi_stage_retrieval sources"
    /\ Len(call.sub_sources) = 2
    /\ call.sub_sources[1] = <<2, 1>>
    /\ call.sub_sources[2] = <<1, 3>>
    /\ call.all_sources = <<2, 1, 3>>

\* what a successful search with zero matches gives back
ZeroMatches == search_semantic_scholar([kind |-> "ok", articles |-> <<>>])

\* C26: the literature search never raises to its caller: on a network,
\* rate-limit or parse failure it returns an empty sequence together with a
\* failure reason that tells the failure from a successful search with zero
\* matches.
C26_SearchFailureIsTyped ==
    (call.fn = "search_semantic_scholar" /\ call.outcome.kind \in SearchFailures) =>
        /\ ~call.result.raised
        /\ call.result.abstracts = <<>>
        /\ call.result # ZeroMatches

\* the number of clusters of each size
SizeCounts(clusters) ==
    [size \in 1..MaxAll + 1 |->
        Cardinality({k \in 1..Len(clusters) : Len(clusters[k]) = size})]

\* C27: for a fixed set of sentences and a fixed pairwise similarity, the
\* multiset of cluster sizes produced by the greedy clustering, and so the
\* semantic entropy, is the same for every ordering of the sentences.
C27_ClusteringOrderIndependent ==
    call.fn = "calculate_sentence_semantic_entropy in two orders" =>
        /\ SizeCounts(call.result.clusters) = SizeCounts(call.reordered.clusters)
        /\ call.result.entropy = call.reordered.entropy

\* the similarity of the sentences at two positions of the list
SimAt(r, sim, i, j) == SimOf(sim, r.all_sentences[i], r.all_sentences[j])

\* C28: in the result of the greedy clustering each cluster's seed is its
\* smallest index, every other member has a similarity to that seed strictly
\* above 0.7 and was not similar above 0.7 to any earlier seed, and any two
\* distinct seeds have a similarity of 0.7 or less.
C28_ClustersAroundSeeds ==
    (EntropyCalled /\ call.result.clustered) =>
        LET r == call.result
            clusters == r.clusters
            seed(k) == clusters[k][1]
        IN  /\ \A k \in 1..Len(clusters) : \A m \in 2..Len(clusters[k]) :
                   /\ seed(k) < clusters[k][m]
                   /\ SimAt(r, call.sim, seed(k), clusters[k][m]) > 70
                   /\ \A e \in 1..(k - 1) :
                          SimAt(r, call.sim, seed(e), clusters[k][m]) <= 70
            /\ \A k, e \in 1..Len(clusters) :
                   k # e => SimAt(r, call.sim, seed(k), seed(e)) <= 70

\* two clusters of two sentences whose seeds are exactly at the threshold, the
\* second seed's member being similar to the first seed's member
C28_Witness ==
    /\ EntropyCalled
    /\ call.result.clustered
    /\ call.result.clusters = << <<1, 2>>, <<3, 4>> >>
    /\ SimAt(call.result, call.sim, 1, 3) = 70
    /\ SimAt(call.result, call.sim, 2, 4) > 70

\* the queries of an assessment made in one stage
QueriesIn(r, stage) == {k \in 1..Len(r.queries) : r.queries[k].stage = stage}

\* C29: a failure-free single-stage assessment issues exactly 1 + num_tries + 3
\* retrieval queries, all with the original question and one after another: one
\* in RETRIEVE, num_tries in CONSISTENCY and always 3 in ENTROPY; in multi-stage
\* mode CONSISTENCY and ENTROPY issue the same num_tries + 3 direct queries on
\* the original question.
C29_QueriesPerStage ==
    \A p \in Procs :
        Returned(p) =>
            LET r == st[p]
            IN  /\ Cardinality(QueriesIn(r, "CONSISTENCY")) = r.num_tries
                /\ Cardinality(QueriesIn(r, "ENTROPY")) = 3
                /\ \A k \in QueriesIn(r, "CONSISTENCY") \cup QueriesIn(r, "ENTROPY") :
                       r.queries[k].q = "original"
                /\ \A k \in QueriesIn(r, "RETRIEVE"), c \in QueriesIn(r, "CONSISTENCY") : k < c
                /\ \A c \in QueriesIn(r, "CONSISTENCY"), e \in QueriesIn(r, "ENTROPY") : c < e
                /\ \A k \in QueriesIn(r, "RETRIEVE"), e \in QueriesIn(r, "ENTROPY") : k < e
                /\ ~r.use_multi_stage =>
                       /\ Len(r.queries) = 1 + r.num_tries + 3
                       /\ Cardinality(QueriesIn(r, "RETRIEVE")) = 1
                       /\ \A k \in 1..Len(r.queries) : r.queries[k].q = "original"
                /\ r.use_multi_stage =>
                       Len(r.queries) = r.sub_questions + r.num_tries + 3

\* a multi-stage assessment with sub-questions and no consistency try returned
C29_Witness ==
    \E p \in Procs :
        /\ Returned(p)
        /\ st[p].use_multi_stage
        /\ st[p].sub_questions = MaxSubQ
        /\ st[p].num_tries = 0
        /\ Len(st[p].queries) = MaxSubQ + 3

\* C30: when enable_fact_check is false the EXTERNAL_CHECK stage is skipped: no
\* keyword extraction and no external search is made, fact_check_result is None,
\* max_safety_score is 3 and safety_score counts only attribution, consistency
\* and entropy.
C30_FactCheckDisabled ==
    \A p \in Procs :
        (Returned(p) /\ ~st[p].enable_fact_check) =>
            /\ st[p].external_events = NoEvents
            /\ ~st[p].fact_check_result.is_dict
            /\ st[p].max_score = 3
            /\ st[p].safety_score = InternalPasses(st[p])

\* an assessment without fact check whose three stages all passed
C30_Witness ==
    \E p \in Procs :
        /\ Returned(p)
        /\ ~st[p].enable_fact_check
        /\ st[p].safety_score = 3
        /\ st[p].confidence = "HIGH CONFIDENCE"

=============================================================================
